---- MODULE Spec2Model ----
(***************************************************************************)
(* A model of two resource facades of the construct library:               *)
(*   - Group   (packages/@aws-cdk/aws-iam/lib/group.ts)                    *)
(*   - RestApi (the API-gateway facade, restapi.ts)                        *)
(* Every object is identified by its place in the construct tree (a        *)
(* sequence of construct ids below the application root).  JavaScript      *)
(* arrays are heap objects: a field holds the ADDRESS of an array, and     *)
(* `heap` maps an address to the array's contents, so that two fields      *)
(* holding the same array are visible as such.                             *)
(***************************************************************************)
EXTENDS Integers, Sequences, FiniteSets, TLC

VARIABLES
    tree,        \* the construct tree: the set of paths of the constructs created
    ncalls,      \* number of mutator calls made so far (bounded by MaxCalls)
    \* ---- Group ----
    heap,        \* array address -> contents of the array
    groups,      \* group id -> the Group object's fields
    policies,    \* the Policy objects, in order of creation
    users,       \* user id -> the groups the User recorded (User.addToGroup)
    attachLog,   \* history: group id -> the arns passed to attachManagedPolicy
    stmtLog,     \* history: group id -> the statements passed to addToPolicy
    \* ---- RestApi ----
    apis,        \* api id -> the RestApi object's fields
    stages,      \* the Stage objects created by RestApi
    deployments, \* the Deployment objects created by RestApi
    outputs,     \* the cdk.Output constructs
    roles,       \* the iam.Role constructs
    accounts,    \* the AccountResource constructs
    deps,        \* dependency edges <<dependent, dependency>> (addDependency)
    last,        \* the last RestApi operation called, its arguments and outcome
    \* ---- executeApiArn ----
    arnCall,     \* the arguments of a call of executeApiArn
    arnRet       \* its outcome

vars == <<tree, ncalls, heap, groups, policies, users, attachLog, stmtLog,
          apis, stages, deployments, outputs, roles, accounts, deps, last,
          arnCall, arnRet>>

groupVars == <<heap, groups, policies, users, attachLog, stmtLog>>
apiVars   == <<apis, stages, deployments, outputs, roles, accounts, deps, last>>
arnVars   == <<arnCall, arnRet>>

\* Bound on the number of mutator calls made on the constructed objects.
MaxCalls == 4

\* JavaScript's undefined, for values that are plain strings or booleans
\* (a boolean option is "true", "false" or Undef).
Undef == "undefined"

\* A JavaScript string that the code inspects or concatenates is the sequence of
\* its characters; UndefStr is undefined where such a string is expected.
UndefStr == <<"undefined">>

\* A construct id is a string given as a sequence of chunks (so that
\* `DeploymentStage.${stageName}` is a concatenation); a construct's path is the
\* sequence of the ids from the root down to it.
Id(s) == <<s>>
NoRef == <<>>

\* new Construct(parent, id): the construct at `path` enters the tree t below
\* its parent.
Construct_constructor(t, path) == t \cup {path}

(***************************************************************************)
(*                                 Group                                   *)
(***************************************************************************)
GroupIds     == {"g1", "g2"}
CallerArrays == {"p1"}            \* arrays owned by the caller of the constructor
Arns         == {"arnA", "arnB"}
Statements   == {"s1", "s2"}
UserIds      == {"u1"}
NullAddr     == "null"

\* The array `[]` the constructor allocates for group g lives at address g.
Addrs == CallerArrays \cup GroupIds

NoGroup == [constructed |-> FALSE, propsArns |-> Undef, managedPolicies |-> NullAddr,
            defaultPolicy |-> 0, attachedPolicies |-> <<>>]

\* A Policy that exists before any group does (created by the caller).
ExternalPolicy == [scope |-> "app", id |-> "ExternalPolicy", statements |-> <<>>,
                   groups |-> <<>>]

\* The indices of the Policy objects created as construct `id` under `scope`.
PoliciesOf(scope, id) ==
    {i \in DOMAIN policies : policies[i].scope = scope /\ policies[i].id = id}

\* Policy.attachToGroup(group): the policy records the group as a target.
attachToGroup(ps, i, g) == [ps EXCEPT ![i].groups = Append(@, g)]

\* Policy.addStatement(statement)
addStatement(ps, i, s) == [ps EXCEPT ![i].statements = Append(@, s)]

\* new Group(parent, name, props): props.managedPolicyArns is undefined or the
\* address of an array of the caller.  `props.managedPolicyArns || []` keeps the
\* caller's array itself (an array, even an empty one, is truthy).
GroupConstructor(g, arns) ==
    /\ ~groups[g].constructed
    /\ <<Id(g)>> \notin tree
    /\ tree' = Construct_constructor(Construct_constructor(tree, <<Id(g)>>),
                                     <<Id(g), Id("Resource")>>)
    /\ groups' = [groups EXCEPT ![g] =
                     [constructed |-> TRUE, propsArns |-> arns,
                      managedPolicies |-> IF arns # Undef THEN arns ELSE g,
                      defaultPolicy |-> 0, attachedPolicies |-> <<>>]]
    /\ heap' = IF arns # Undef THEN heap ELSE [heap EXCEPT ![g] = <<>>]
    /\ UNCHANGED <<ncalls, policies, users, attachLog, stmtLog, apiVars, arnVars>>

\* A faulty variant of attachManagedPolicy: one that skips an arn the list already holds.
attachManagedPolicyDedup(g, arn) ==
    /\ groups[g].constructed
    /\ ncalls < MaxCalls
    /\ ncalls' = ncalls + 1
    /\ heap' = [heap EXCEPT ![groups[g].managedPolicies] =
                   IF \E i \in DOMAIN @ : @[i] = arn THEN @ ELSE Append(@, arn)]
    /\ attachLog' = [attachLog EXCEPT ![g] = Append(@, arn)]
    /\ UNCHANGED <<tree, groups, policies, users, stmtLog, apiVars, arnVars>>

\* Group.attachManagedPolicy(arn): this.managedPolicies.push(arn)
attachManagedPolicy(g, arn) ==
    /\ groups[g].constructed
    /\ ncalls < MaxCalls
    /\ ncalls' = ncalls + 1
    /\ heap' = [heap EXCEPT ![groups[g].managedPolicies] = Append(@, arn)]
    /\ attachLog' = [attachLog EXCEPT ![g] = Append(@, arn)]
    /\ UNCHANGED <<tree, groups, policies, users, stmtLog, apiVars, arnVars>>

\* Group.attachInlinePolicy(policy): this.attachedPolicies.attach(policy);
\* policy.attachToGroup(this).  The policy is one the caller holds.
attachInlinePolicy(g, i) ==
    /\ groups[g].constructed
    /\ i \in DOMAIN policies
    /\ policies[i].scope = "app"
    /\ \A k \in DOMAIN groups[g].attachedPolicies : groups[g].attachedPolicies[k] # i
    /\ ncalls < MaxCalls
    /\ ncalls' = ncalls + 1
    /\ groups' = [groups EXCEPT ![g].attachedPolicies = Append(@, i)]
    /\ policies' = attachToGroup(policies, i, g)
    /\ UNCHANGED <<tree, heap, users, attachLog, stmtLog, apiVars, arnVars>>

\* Group.addUser(user): user.addToGroup(this); the group keeps no list of its own.
addUser(g, u) ==
    /\ groups[g].constructed
    /\ \A k \in DOMAIN users[u] : users[u][k] # g
    /\ ncalls < MaxCalls
    /\ ncalls' = ncalls + 1
    /\ users' = [users EXCEPT ![u] = Append(@, g)]
    /\ UNCHANGED <<tree, heap, groups, policies, attachLog, stmtLog, apiVars, arnVars>>

\* A faulty variant of addToPolicy: one that creates a default policy on every call.
addToPolicyAlwaysNew(g, s) ==
    /\ groups[g].constructed
    /\ ncalls < MaxCalls
    /\ ncalls' = ncalls + 1
    /\ LET created == Append(policies, [scope |-> g, id |-> "DefaultPolicy",
                                        statements |-> <<>>, groups |-> <<>>])
           dp      == Len(created)
       IN  /\ policies' = addStatement(attachToGroup(created, dp, g), dp, s)
           /\ groups' = [groups EXCEPT ![g].defaultPolicy = dp]
           /\ tree' = Construct_constructor(tree, <<Id(g), Id("DefaultPolicy")>>)
    /\ stmtLog' = [stmtLog EXCEPT ![g] = Append(@, s)]
    /\ UNCHANGED <<heap, users, attachLog, apiVars, arnVars>>

\* Group.addToPolicy(statement)
addToPolicy(g, s) ==
    /\ groups[g].constructed
    /\ ncalls < MaxCalls
    /\ ncalls' = ncalls + 1
    /\ IF groups[g].defaultPolicy = 0
       THEN LET created == Append(policies, [scope |-> g, id |-> "DefaultPolicy",
                                             statements |-> <<>>, groups |-> <<>>])
                dp      == Len(created)
            IN  /\ policies' = addStatement(attachToGroup(created, dp, g), dp, s)
                /\ groups' = [groups EXCEPT ![g].defaultPolicy = dp]
                /\ tree' = Construct_constructor(tree, <<Id(g), Id("DefaultPolicy")>>)
       ELSE /\ policies' = addStatement(policies, groups[g].defaultPolicy, s)
            /\ UNCHANGED <<groups, tree>>
    /\ stmtLog' = [stmtLog EXCEPT ![g] = Append(@, s)]
    /\ UNCHANGED <<heap, users, attachLog, apiVars, arnVars>>

(***************************************************************************)
(*                                RestApi                                  *)
(* Options that the constructor only forwards to the underlying            *)
(* RestApiResource (restApiName, description, policy, ...) are left out,   *)
(* and so are the fields no operation modelled here reads                  *)
(* (defaultIntegration, resourceId, resourceApi, resourcePath).            *)
(***************************************************************************)
ApiIds      == {"api1"}
HttpMethods == {"GET", "POST"}
PathParts   == {"books"}
OptBool     == {Undef, "true", "false"}

\* deployOptions.stageName: undefined, the empty string, or "b".
StageNames  == {UndefStr, <<>>, <<"b">>}

\* props.deployOptions: not given, or a StageOptions object.
DeployOptions ==
    {[given |-> FALSE, stageName |-> UndefStr]} \cup
    {[given |-> TRUE, stageName |-> n] : n \in StageNames}

RestApiProps ==
    [deploy : OptBool, deployOptions : DeployOptions,
     retainDeployments : OptBool, cloudWatchRole : OptBool]

\* URL paths handed to urlForPath: omitted, "/", "/a", "a".
UrlPaths == {UndefStr, <<"/">>, <<"/", "a">>, <<"a">>}

ErrNoStage       == "Cannot determine deployment stage for API from deploymentStage"
ErrDeployOptions == "Cannot set 'deployOptions' if 'deploy' is disabled"
ErrPath          == "path must begin with a /"

\* The fields of a RestApi object.  `registered` (the number of methods ever
\* registered) and `assigned` (deploymentStage was assigned by the caller) are
\* history, not fields of the object.
NoApi == [constructed |-> "no", restApiId |-> NoRef, latestDeployment |-> NoRef,
          deploymentStage |-> NoRef, methods |-> <<>>,
          registered |-> 0, assigned |-> FALSE]

\* A Stage (on a Deployment of its own) that the caller created by hand.
ExternalStage == [path |-> <<Id("ExternalStage")>>,
                  deployment |-> <<Id("ExternalDeployment")>>, stageName |-> UndefStr]

\* s.startsWith(prefix)
startsWith(s, prefix) ==
    Len(s) >= Len(prefix) /\ SubSeq(s, 1, Len(prefix)) = prefix

\* JavaScript truthiness of an optional string: undefined and '' are falsy.
truthyStr(s) == s # UndefStr /\ s # <<>>

\* Stage.urlForPath(path) of the stage at `stage`: the delegated call.
Stage_urlForPath(stage, path) == [stage |-> stage, path |-> path]
NoUrl == [stage |-> NoRef, path |-> <<>>]

\* A faulty variant of urlForPath: one that tests latestDeployment instead of deploymentStage.
urlForPathChecksDeployment(api, path) ==
    LET p == IF path = UndefStr THEN <<"/">> ELSE path
    IN  IF api.latestDeployment = NoRef
        THEN [threw |-> ErrNoStage, value |-> NoUrl]
        ELSE [threw |-> "", value |-> Stage_urlForPath(api.deploymentStage, p)]

\* RestApi.urlForPath(path = '/')
urlForPath(api, path) ==
    LET p == IF path = UndefStr THEN <<"/">> ELSE path
    IN  IF api.deploymentStage = NoRef
        THEN [threw |-> ErrNoStage, value |-> NoUrl]
        ELSE [threw |-> "", value |-> Stage_urlForPath(api.deploymentStage, p)]

\* RestApi.url (getter)
url(api) == urlForPath(api, UndefStr)

\* A faulty variant of validate: one that asks for more than one method.
validateOffByOne(api) ==
    IF Len(api.methods) <= 1
    THEN <<"The REST API doesn't contain any methods">>
    ELSE <<>>

\* RestApi.validate()
validate(api) ==
    IF Len(api.methods) = 0
    THEN <<"The REST API doesn't contain any methods">>
    ELSE <<>>

\* RestApi._attachMethod(method)
_attachMethod(api, method) == [api EXCEPT !.methods = Append(@, method)]

NoArn == [service |-> "", resource |-> NoRef, sep |-> "", resourceName |-> <<>>]

\* A faulty variant of executeApiArn: one without the check of the path.
executeApiArnUnchecked(restApiId, method, path, stage) ==
    LET m == IF method = UndefStr THEN <<"*">> ELSE method
        p == IF path = UndefStr THEN <<"/", "*">> ELSE path
        s == IF stage = UndefStr THEN <<"*">> ELSE stage
    IN  [threw |-> "",
         value |-> [service |-> "execute-api", resource |-> restApiId, sep |-> "/",
                    resourceName |-> s \o <<"/">> \o m \o p]]

\* RestApi.executeApiArn(method = '*', path = '/*', stage = '*'); the value is the
\* ARN given by the components handed to cdk.Arn.fromComponents.
executeApiArn(restApiId, method, path, stage) ==
    LET m == IF method = UndefStr THEN <<"*">> ELSE method
        p == IF path = UndefStr THEN <<"/", "*">> ELSE path
        s == IF stage = UndefStr THEN <<"*">> ELSE stage
    IN  IF ~startsWith(p, <<"/">>)
        THEN [threw |-> ErrPath, value |-> NoArn]
        ELSE [threw |-> "",
              value |-> [service |-> "execute-api", resource |-> restApiId, sep |-> "/",
                         resourceName |-> s \o <<"/">> \o m \o p]]

\* The part of the state a RestApi constructor call for api `a` works on.
World(a) ==
    [tree |-> tree, api |-> apis[a], stages |-> stages, deployments |-> deployments,
     outputs |-> outputs, roles |-> roles, accounts |-> accounts, deps |-> deps]

\* A faulty variant of configureDeployment: one that takes an omitted `deploy` for false.
configureDeploymentNoDefault(w, a, props) ==
    IF props.deploy = "true"
    THEN LET depPath == <<Id(a), Id("Deployment")>>
             w1 == [w EXCEPT !.tree = Construct_constructor(@, depPath),
                             !.deployments = @ \cup
                                 {[path |-> depPath, api |-> a,
                                   description |->
                                     "Automatically created by the RestApi construct",
                                   retainDeployments |-> props.retainDeployments]},
                             !.api.latestDeployment = depPath]
             stageName == IF props.deployOptions.given
                             /\ truthyStr(props.deployOptions.stageName)
                          THEN props.deployOptions.stageName
                          ELSE <<"p", "r", "o", "d">>
             stPath == <<Id(a), <<"DeploymentStage.">> \o stageName>>
             w2 == [w1 EXCEPT !.tree = Construct_constructor(@, stPath),
                              !.stages = @ \cup
                                  {[path |-> stPath,
                                    deployment |-> w1.api.latestDeployment,
                                    stageName |-> props.deployOptions.stageName]},
                              !.api.deploymentStage = stPath]
             u == urlForPath(w2.api, UndefStr)
             outPath == <<Id(a), Id("Endpoint")>>
         IN  IF u.threw # ""
             THEN [w |-> w2, threw |-> u.threw]
             ELSE [w |-> [w2 EXCEPT !.tree = Construct_constructor(@, outPath),
                                    !.outputs = @ \cup
                                        {[path |-> outPath, value |-> u.value]}],
                   threw |-> ""]
    ELSE IF props.deployOptions.given
         THEN [w |-> w, threw |-> ErrDeployOptions]
         ELSE [w |-> w, threw |-> ""]

\* A faulty variant of configureDeployment: one that accepts deployOptions when deploy is disabled.
configureDeploymentNoConflict(w, a, props) ==
    IF (IF props.deploy = Undef THEN TRUE ELSE props.deploy = "true")
    THEN LET depPath == <<Id(a), Id("Deployment")>>
             w1 == [w EXCEPT !.tree = Construct_constructor(@, depPath),
                             !.deployments = @ \cup
                                 {[path |-> depPath, api |-> a,
                                   description |->
                                     "Automatically created by the RestApi construct",
                                   retainDeployments |-> props.retainDeployments]},
                             !.api.latestDeployment = depPath]
             stageName == IF props.deployOptions.given
                             /\ truthyStr(props.deployOptions.stageName)
                          THEN props.deployOptions.stageName
                          ELSE <<"p", "r", "o", "d">>
             stPath == <<Id(a), <<"DeploymentStage.">> \o stageName>>
             w2 == [w1 EXCEPT !.tree = Construct_constructor(@, stPath),
                              !.stages = @ \cup
                                  {[path |-> stPath,
                                    deployment |-> w1.api.latestDeployment,
                                    stageName |-> props.deployOptions.stageName]},
                              !.api.deploymentStage = stPath]
             u == urlForPath(w2.api, UndefStr)
             outPath == <<Id(a), Id("Endpoint")>>
         IN  IF u.threw # ""
             THEN [w |-> w2, threw |-> u.threw]
             ELSE [w |-> [w2 EXCEPT !.tree = Construct_constructor(@, outPath),
                                    !.outputs = @ \cup
                                        {[path |-> outPath, value |-> u.value]}],
                   threw |-> ""]
    ELSE [w |-> w, threw |-> ""]

\* RestApi.configureDeployment(props), on the world w of the constructor call:
\* the world it leaves and the error it throws ("" when none).
configureDeployment(w, a, props) ==
    IF (IF props.deploy = Undef THEN TRUE ELSE props.deploy = "true")
    THEN LET depPath == <<Id(a), Id("Deployment")>>
             \* this.latestDeployment = new Deployment(this, 'Deployment', ...)
             w1 == [w EXCEPT !.tree = Construct_constructor(@, depPath),
                             !.deployments = @ \cup
                                 {[path |-> depPath, api |-> a,
                                   description |->
                                     "Automatically created by the RestApi construct",
                                   retainDeployments |-> props.retainDeployments]},
                             !.api.latestDeployment = depPath]
             stageName == IF props.deployOptions.given
                             /\ truthyStr(props.deployOptions.stageName)
                          THEN props.deployOptions.stageName
                          ELSE <<"p", "r", "o", "d">>
             stPath == <<Id(a), <<"DeploymentStage.">> \o stageName>>
             \* this.deploymentStage = new Stage(this, `DeploymentStage.${stageName}`,
             \*     { deployment: this.latestDeployment, ...props.deployOptions })
             w2 == [w1 EXCEPT !.tree = Construct_constructor(@, stPath),
                              !.stages = @ \cup
                                  {[path |-> stPath,
                                    deployment |-> w1.api.latestDeployment,
                                    stageName |-> props.deployOptions.stageName]},
                              !.api.deploymentStage = stPath]
             \* new cdk.Output(this, 'Endpoint', { value: this.urlForPath() })
             u == urlForPath(w2.api, UndefStr)
             outPath == <<Id(a), Id("Endpoint")>>
         IN  IF u.threw # ""
             THEN [w |-> w2, threw |-> u.threw]
             ELSE [w |-> [w2 EXCEPT !.tree = Construct_constructor(@, outPath),
                                    !.outputs = @ \cup
                                        {[path |-> outPath, value |-> u.value]}],
                   threw |-> ""]
    ELSE IF props.deployOptions.given
         THEN [w |-> w, threw |-> ErrDeployOptions]
         ELSE [w |-> w, threw |-> ""]

\* The managed policy of the CloudWatch role, by its ARN components.
PushToCloudWatchLogs ==
    [service |-> "iam", region |-> "", account |-> "aws", resource |-> "policy",
     sep |-> "/", resourceName |-> "service-role/AmazonAPIGatewayPushToCloudWatchLogs"]

\* A faulty variant of configureCloudWatchRole: one that records no dependency.
configureCloudWatchRoleNoDependency(w, a, apiResource) ==
    LET rolePath == <<Id(a), Id("CloudWatchRole")>>
        accPath  == <<Id(a), Id("Account")>>
    IN  [w EXCEPT !.tree = Construct_constructor(Construct_constructor(@, rolePath), accPath),
                  !.roles = @ \cup {[path |-> rolePath,
                                     assumedBy |-> "apigateway.amazonaws.com",
                                     managedPolicyArns |-> <<PushToCloudWatchLogs>>]},
                  !.accounts = @ \cup {[path |-> accPath,
                                        cloudWatchRoleArn |-> rolePath]}]

\* RestApi.configureCloudWatchRole(apiResource)
configureCloudWatchRole(w, a, apiResource) ==
    LET rolePath == <<Id(a), Id("CloudWatchRole")>>
        accPath  == <<Id(a), Id("Account")>>
    IN  [w EXCEPT !.tree = Construct_constructor(Construct_constructor(@, rolePath), accPath),
                  !.roles = @ \cup {[path |-> rolePath,
                                     assumedBy |-> "apigateway.amazonaws.com",
                                     managedPolicyArns |-> <<PushToCloudWatchLogs>>]},
                  !.accounts = @ \cup {[path |-> accPath,
                                        cloudWatchRoleArn |-> rolePath]},
                  \* resource.addDependency(apiResource)
                  !.deps = @ \cup {<<accPath, apiResource>>}]

\* The constructor of RestApi on the world w: super(parent, id) enters the
\* construct in the tree, then the RestApiResource child, the fields, the
\* deployment, and the CloudWatch role.  A throw ends it where it happens.
RestApi_constructor(w, a, props) ==
    LET resource == <<Id(a), Id("Resource")>>
        w1 == [w EXCEPT !.tree = Construct_constructor(Construct_constructor(@, <<Id(a)>>),
                                                                resource),
                        !.api.restApiId = resource]
        d  == configureDeployment(w1, a, props)
        cloudWatchRole == IF props.cloudWatchRole # Undef
                          THEN props.cloudWatchRole = "true" ELSE TRUE
    IN  IF d.threw # "" THEN d
        ELSE IF cloudWatchRole
             THEN [w |-> configureCloudWatchRole(d.w, a, resource), threw |-> ""]
             ELSE d

\* new RestApi(parent, a, props)
NewRestApi(a, props) ==
    /\ apis[a].constructed = "no"
    /\ <<Id(a)>> \notin tree
    /\ LET r == RestApi_constructor(World(a), a, props)
       IN  /\ tree' = r.w.tree
           /\ apis' = [apis EXCEPT ![a] =
                         [r.w.api EXCEPT !.constructed =
                                            IF r.threw = "" THEN "ok" ELSE "threw"]]
           /\ stages' = r.w.stages
           /\ deployments' = r.w.deployments
           /\ outputs' = r.w.outputs
           /\ roles' = r.w.roles
           /\ accounts' = r.w.accounts
           /\ deps' = r.w.deps
           /\ last' = [op |-> "new", api |-> a, args |-> props, threw |-> r.threw,
                       ret |-> NoRef]
    /\ UNCHANGED <<ncalls, groupVars, arnVars>>

\* api.deploymentStage = stage, by the caller (the field is public).
assignDeploymentStage(a, stage) ==
    /\ apis[a].constructed = "ok"
    /\ stage \in stages
    /\ ncalls < MaxCalls
    /\ ncalls' = ncalls + 1
    /\ apis' = [apis EXCEPT ![a].deploymentStage = stage.path, ![a].assigned = TRUE]
    /\ last' = [op |-> "assign", api |-> a, args |-> stage.path, threw |-> "",
                ret |-> NoRef]
    /\ UNCHANGED <<tree, stages, deployments, outputs, roles, accounts, deps,
                   groupVars, arnVars>>

\* RestApi.addResource(pathPart): new Resource(this, pathPart, ...)
addResource(a, pathPart) ==
    /\ apis[a].constructed = "ok"
    /\ <<Id(a), Id(pathPart)>> \notin tree
    /\ ncalls < MaxCalls
    /\ ncalls' = ncalls + 1
    /\ tree' = Construct_constructor(tree, <<Id(a), Id(pathPart)>>)
    /\ last' = [op |-> "addResource", api |-> a, args |-> pathPart, threw |-> "",
                ret |-> <<Id(a), Id(pathPart)>>]
    /\ UNCHANGED <<apis, stages, deployments, outputs, roles, accounts, deps,
                   groupVars, arnVars>>

\* new Method(scope, httpMethod, { resource, ... }) for a resource of api a:
\* the Method enters the tree below `scope` and registers itself with
\* resource.resourceApi._attachMethod(this).
Method_constructor(a, scope, httpMethod) ==
    /\ Append(scope, Id(httpMethod)) \notin tree
    /\ tree' = Construct_constructor(tree, Append(scope, Id(httpMethod)))
    /\ apis' = [apis EXCEPT ![a] =
                  [_attachMethod(@, Append(scope, Id(httpMethod)))
                      EXCEPT !.registered = @ + 1]]

\* RestApi.onMethod(httpMethod, integration, options): a method on the root.
onMethod(a, httpMethod) ==
    /\ apis[a].constructed = "ok"
    /\ ncalls < MaxCalls
    /\ ncalls' = ncalls + 1
    /\ Method_constructor(a, <<Id(a)>>, httpMethod)
    /\ last' = [op |-> "onMethod", api |-> a, args |-> httpMethod, threw |-> "",
                ret |-> <<Id(a), Id(httpMethod)>>]
    /\ UNCHANGED <<stages, deployments, outputs, roles, accounts, deps,
                   groupVars, arnVars>>

\* Resource.onMethod(httpMethod, ...) on the resource addResource(pathPart) made.
Resource_onMethod(a, pathPart, httpMethod) ==
    /\ apis[a].constructed = "ok"
    /\ <<Id(a), Id(pathPart)>> \in tree
    /\ ncalls < MaxCalls
    /\ ncalls' = ncalls + 1
    /\ Method_constructor(a, <<Id(a), Id(pathPart)>>, httpMethod)
    /\ last' = [op |-> "Resource.onMethod", api |-> a, args |-> httpMethod,
                threw |-> "", ret |-> <<Id(a), Id(pathPart), Id(httpMethod)>>]
    /\ UNCHANGED <<stages, deployments, outputs, roles, accounts, deps,
                   groupVars, arnVars>>

\* A call of api.validate()
CallValidate(a) ==
    /\ apis[a].constructed = "ok"
    /\ last' = [op |-> "validate", api |-> a, args |-> NoRef, threw |-> "",
                ret |-> validate(apis[a])]
    /\ UNCHANGED <<tree, ncalls, apis, stages, deployments, outputs, roles, accounts,
                   deps, groupVars, arnVars>>

\* A read of api.url
CallUrl(a) ==
    /\ apis[a].constructed = "ok"
    /\ LET r == url(apis[a])
       IN  last' = [op |-> "url", api |-> a, args |-> UndefStr, threw |-> r.threw,
                    ret |-> r.value]
    /\ UNCHANGED <<tree, ncalls, apis, stages, deployments, outputs, roles, accounts,
                   deps, groupVars, arnVars>>

\* A call of api.urlForPath(path)
CallUrlForPath(a, path) ==
    /\ apis[a].constructed = "ok"
    /\ LET r == urlForPath(apis[a], path)
       IN  last' = [op |-> "urlForPath", api |-> a, args |-> path, threw |-> r.threw,
                    ret |-> r.value]
    /\ UNCHANGED <<tree, ncalls, apis, stages, deployments, outputs, roles, accounts,
                   deps, groupVars, arnVars>>

\* A call of api.executeApiArn(method, path, stage) with the arguments arnCall.
CallExecuteApiArn ==
    /\ ~arnRet.called
    /\ LET r == executeApiArn(arnCall.restApiId, arnCall.method, arnCall.path,
                              arnCall.stage)
       IN  arnRet' = [called |-> TRUE, threw |-> r.threw, value |-> r.value]
    /\ UNCHANGED <<tree, ncalls, groupVars, apiVars, arnCall>>

\* The contents of group g's managed-policy list (the array its field points at).
ManagedPoliciesOf(g) == heap[groups[g].managedPolicies]

\* Bound on the length of the path handed to executeApiArn.
MaxPathLen == 2

\* The strings of at most n characters over the alphabet.
StrUpTo(alphabet, n) == UNION {[1..k -> alphabet] : k \in 0..n}

ArnMethods == {UndefStr, <<"*">>, <<"/">>, <<"G", "E", "T">>}
ArnStages  == {UndefStr, <<"*">>, <<"/">>, <<"p", "r", "o", "d">>}
ArnPaths   == {UndefStr} \cup StrUpTo({"/", "*", "a"}, MaxPathLen)

\* The state of the variables a specification does not use.
IdleGroup ==
    /\ heap = [a \in Addrs |-> <<>>]
    /\ groups = [g \in GroupIds |-> NoGroup]
    /\ policies = <<ExternalPolicy>>
    /\ users = [u \in UserIds |-> <<>>]
    /\ attachLog = [g \in GroupIds |-> <<>>]
    /\ stmtLog = [g \in GroupIds |-> <<>>]

IdleApi ==
    /\ apis = [a \in ApiIds |-> NoApi]
    /\ stages = {ExternalStage}
    /\ deployments = {}
    /\ outputs = {}
    /\ roles = {}
    /\ accounts = {}
    /\ deps = {}
    /\ last = [op |-> "none", api |-> "", args |-> NoRef, threw |-> "", ret |-> NoRef]

IdleArn ==
    /\ arnCall = [restApiId |-> NoRef, method |-> UndefStr, path |-> UndefStr,
                  stage |-> UndefStr]
    /\ arnRet = [called |-> FALSE, threw |-> "", value |-> NoArn]

\* ---- Group: no group is constructed; the caller holds one array.
InitGroup ==
    /\ tree = {}
    /\ ncalls = 0
    /\ heap \in {[a \in Addrs |-> IF a \in CallerArrays THEN c ELSE <<>>] :
                    c \in {<<>>, <<"arnA">>}}
    /\ groups = [g \in GroupIds |-> NoGroup]
    /\ policies = <<ExternalPolicy>>
    /\ users = [u \in UserIds |-> <<>>]
    /\ attachLog = [g \in GroupIds |-> <<>>]
    /\ stmtLog = [g \in GroupIds |-> <<>>]
    /\ IdleApi
    /\ IdleArn

NextGroup ==
    \/ \E g \in GroupIds, arns \in {Undef} \cup CallerArrays : GroupConstructor(g, arns)
    \/ \E g \in GroupIds, arn \in Arns : attachManagedPolicy(g, arn)
    \/ \E g \in GroupIds, i \in DOMAIN policies : attachInlinePolicy(g, i)
    \/ \E g \in GroupIds, u \in UserIds : addUser(g, u)
    \/ \E g \in GroupIds, s \in Statements : addToPolicy(g, s)

SpecGroup == InitGroup /\ [][NextGroup]_vars

\* ---- RestApi: no api is constructed; the caller holds one stage of its own.
InitApi ==
    /\ tree = {}
    /\ ncalls = 0
    /\ IdleGroup
    /\ IdleApi
    /\ IdleArn

NextApi ==
    \/ \E a \in ApiIds, props \in RestApiProps : NewRestApi(a, props)
    \/ \E a \in ApiIds, stage \in stages : assignDeploymentStage(a, stage)
    \/ \E a \in ApiIds, pathPart \in PathParts : addResource(a, pathPart)
    \/ \E a \in ApiIds, m \in HttpMethods : onMethod(a, m)
    \/ \E a \in ApiIds, pathPart \in PathParts, m \in HttpMethods :
          Resource_onMethod(a, pathPart, m)
    \/ \E a \in ApiIds : CallValidate(a)
    \/ \E a \in ApiIds : CallUrl(a)
    \/ \E a \in ApiIds, path \in UrlPaths : CallUrlForPath(a, path)

SpecApi == InitApi /\ [][NextApi]_vars

\* ---- executeApiArn: one call, with arguments from bounded sets.
InitArn ==
    /\ tree = {}
    /\ ncalls = 0
    /\ IdleGroup
    /\ IdleApi
    /\ arnCall \in [restApiId : {<<Id(a), Id("Resource")>> : a \in ApiIds},
                    method : ArnMethods, path : ArnPaths, stage : ArnStages]
    /\ arnRet = [called |-> FALSE, threw |-> "", value |-> NoArn]

NextArn == CallExecuteApiArn

SpecArn == InitArn /\ [][NextArn]_vars

(***************************************************************************)
(*                          Claims about Group                             *)
(***************************************************************************)

\* C7: on a Group constructed with no managedPolicyArns, after any sequence of N
\* attachManagedPolicy calls the managed-policy list has length N and its i-th
\* entry is the arn of the i-th call (duplicates kept, order preserved).
C7_AppendNoDedup ==
    \A g \in GroupIds :
        (groups[g].constructed /\ groups[g].propsArns = Undef) =>
            /\ Len(ManagedPoliciesOf(g)) = Len(attachLog[g])
            /\ \A i \in 1..Len(attachLog[g]) : ManagedPoliciesOf(g)[i] = attachLog[g][i]

\* C7 witness: the same arn attached three times to a group built without
\* managedPolicyArns, and the list holds it three times.
C7_Witness ==
    \E g \in GroupIds :
        /\ groups[g].constructed /\ groups[g].propsArns = Undef
        /\ attachLog[g] = <<"arnA", "arnA", "arnA">>
        /\ ManagedPoliciesOf(g) = <<"arnA", "arnA", "arnA">>

\* C8: addToPolicy lazily creates exactly one default inline policy per Group:
\* none before the first call; after n >= 1 calls exactly one default policy
\* object, attached to the group exactly once, holding the n statements in call
\* order.
C8_OneDefaultPolicy ==
    \A g \in GroupIds :
        groups[g].constructed =>
            IF stmtLog[g] = <<>>
            THEN /\ groups[g].defaultPolicy = 0
                 /\ PoliciesOf(g, "DefaultPolicy") = {}
            ELSE /\ PoliciesOf(g, "DefaultPolicy") = {groups[g].defaultPolicy}
                 /\ policies[groups[g].defaultPolicy].groups = <<g>>
                 /\ policies[groups[g].defaultPolicy].statements = stmtLog[g]

\* C8 witness: two addToPolicy calls with different statements on one group.
C8_Witness ==
    \E g \in GroupIds :
        /\ stmtLog[g] = <<"s2", "s1">>
        /\ Cardinality(PoliciesOf(g, "DefaultPolicy")) = 1
        /\ policies[groups[g].defaultPolicy].statements = <<"s2", "s1">>

\* C10: attachManagedPolicy on a group g changes only g's own managed-policy
\* list: the array the caller passed as props.managedPolicyArns and the
\* managed-policy list of every other group are left unchanged.
C10_AttachFrame ==
    [][\A g \in GroupIds :
          attachLog'[g] # attachLog[g] =>
              /\ \A p \in CallerArrays : heap'[p] = heap[p]
              /\ \A h \in GroupIds \ {g} :
                    groups[h].constructed =>
                        heap'[groups'[h].managedPolicies] = heap[groups[h].managedPolicies]
      ]_vars

(***************************************************************************)
(*                         Claims about RestApi                            *)
(***************************************************************************)

\* The constructs of the tree at or below the construct `a` of the root.
Below(a) == {p \in tree : p[1] = Id(a)}

\* C1: after a construction with `deploy` omitted or true, the RestApi has
\* latestDeployment and deploymentStage set, the stage points at that
\* deployment, and url (urlForPath with the default path) does not fail.
C1_AutoDeploy ==
    (last.op = "new" /\ last.args.deploy \in {Undef, "true"}) =>
        LET api == apis[last.api]
        IN  /\ last.threw = ""
            /\ api.constructed = "ok"
            /\ api.latestDeployment # NoRef
            /\ api.deploymentStage # NoRef
            /\ \E d \in deployments : d.path = api.latestDeployment
            /\ \E st \in stages : /\ st.path = api.deploymentStage
                                  /\ st.deployment = api.latestDeployment
            /\ url(api).threw = ""

\* C1 witness: a construction with `deploy` omitted and deployOptions naming a
\* stage has produced a deployment stage.
C1_Witness ==
    /\ last.op = "new"
    /\ last.args.deploy = Undef
    /\ last.args.deployOptions = [given |-> TRUE, stageName |-> <<"b">>]
    /\ apis[last.api].deploymentStage = <<Id(last.api), <<"DeploymentStage.", "b">>>>

\* C2: a construction with deploy false fails with the configuration-conflict
\* error when deployOptions is supplied; when deployOptions is absent it
\* succeeds with latestDeployment and deploymentStage unset and no Endpoint
\* output published.
C2_DeployDisabled ==
    (last.op = "new" /\ last.args.deploy = "false") =>
        LET api == apis[last.api]
        IN  IF last.args.deployOptions.given
            THEN /\ last.threw = ErrDeployOptions
                 /\ api.constructed = "threw"
            ELSE /\ last.threw = ""
                 /\ api.constructed = "ok"
                 /\ api.latestDeployment = NoRef
                 /\ api.deploymentStage = NoRef
                 /\ outputs = {}
                 /\ <<Id(last.api), Id("Endpoint")>> \notin tree

\* C2 witness: a construction with deploy false and deployOptions supplied was
\* rejected.
C2_Witness ==
    /\ last.op = "new"
    /\ last.args.deploy = "false"
    /\ last.args.deployOptions.given
    /\ last.threw = ErrDeployOptions

\* C3: a rejected construction (deployOptions supplied with deploy false) is
\* never partially applied: it has added no construct to the tree.
C3_RejectedLeavesNoConstruct ==
    \A a \in ApiIds : apis[a].constructed = "threw" => Below(a) = {}

\* C4: url and urlForPath(path) fail, with the state error, if and only if
\* deploymentStage is unset at the call: on a RestApi built without a deployment
\* they fail until deploymentStage is assigned, and once it is assigned or
\* auto-deployed they return what that stage's urlForPath gives for the path.
C4_UrlNeedsStage ==
    last.op \in {"url", "urlForPath"} =>
        LET api == apis[last.api]
            p   == IF last.args = UndefStr THEN <<"/">> ELSE last.args
        IN  /\ (last.threw # "") <=> (api.deploymentStage = NoRef)
            /\ (last.threw # "") => last.threw = ErrNoStage
            /\ (api.latestDeployment = NoRef /\ ~api.assigned) => last.threw = ErrNoStage
            /\ (api.latestDeployment # NoRef \/ api.assigned) =>
                  /\ last.threw = ""
                  /\ last.ret = Stage_urlForPath(api.deploymentStage, p)

\* C4 witness: urlForPath("/a") succeeds on a RestApi built with deploy false
\* whose deploymentStage was then assigned.
C4_Witness ==
    /\ last.op = "urlForPath"
    /\ last.args = <<"/", "a">>
    /\ apis[last.api].latestDeployment = NoRef
    /\ apis[last.api].assigned
    /\ last.threw = ""
    /\ last.ret = [stage |-> ExternalStage.path, path |-> <<"/", "a">>]

\* C5: validate() returns exactly one diagnostic when no method was ever
\* registered and the empty list once one was; it never fails and changes no
\* state; and once it returns the empty list it does so after every later step.
C5_Validate ==
    [][ /\ \A a \in ApiIds :
              (last'.op = "validate" /\ last'.api = a) =>
                  /\ UNCHANGED <<tree, ncalls, apis, stages, deployments, outputs,
                                 roles, accounts, deps>>
                  /\ last'.threw = ""
                  /\ (apis[a].registered = 0 => Len(last'.ret) = 1)
                  /\ (apis[a].registered > 0 => last'.ret = <<>>)
        /\ \A a \in ApiIds :
              (apis[a].constructed = "ok" /\ validate(apis[a]) = <<>>)
                  => validate(apis'[a]) = <<>>
      ]_vars

\* C5 witness: validate() returned the empty list on a RestApi with a method on
\* the root and a method on a resource made by addResource.
C5_Witness ==
    /\ last.op = "validate"
    /\ last.ret = <<>>
    /\ apis[last.api].registered = 2
    /\ \E m \in HttpMethods : <<Id(last.api), Id(m)>> \in tree
    /\ \E m \in HttpMethods : <<Id(last.api), Id("books"), Id(m)>> \in tree

\* C9: after a successful construction with cloudWatchRole omitted or true there
\* are a role assumable by the gateway service principal, an account resource
\* and the edge <<account resource, gateway resource>>; with cloudWatchRole
\* false there is none of them; and they exist only on a RestApi whose
\* configureDeployment succeeded.
C9_CloudWatchRole ==
    /\ last.op = "new" =>
          LET a        == last.api
              rolePath == <<Id(a), Id("CloudWatchRole")>>
              accPath  == <<Id(a), Id("Account")>>
              edge     == <<accPath, <<Id(a), Id("Resource")>>>>
          IN  /\ (last.args.cloudWatchRole \in {Undef, "true"} /\ last.threw = "") =>
                    /\ \E r \in roles : /\ r.path = rolePath
                                        /\ r.assumedBy = "apigateway.amazonaws.com"
                    /\ \E ac \in accounts : /\ ac.path = accPath
                                            /\ ac.cloudWatchRoleArn = rolePath
                    /\ {rolePath, accPath} \subseteq tree
                    /\ edge \in deps
              /\ last.args.cloudWatchRole = "false" =>
                    /\ roles = {} /\ accounts = {} /\ deps = {}
                    /\ rolePath \notin tree /\ accPath \notin tree
    /\ \A a \in ApiIds :
          (<<Id(a), Id("CloudWatchRole")>> \in tree \/ <<Id(a), Id("Account")>> \in tree)
              => (apis[a].constructed = "ok" /\ apis[a].restApiId # NoRef)

\* C9 witness: a successful construction with cloudWatchRole omitted recorded
\* the dependency of the account resource on the gateway resource.
C9_Witness ==
    /\ last.op = "new"
    /\ last.args.cloudWatchRole = Undef
    /\ last.threw = ""
    /\ <<<<Id(last.api), Id("Account")>>, <<Id(last.api), Id("Resource")>>>> \in deps

(***************************************************************************)
(*                      Claims about executeApiArn                         *)
(***************************************************************************)

====
